---- MODULE Spec2Model ----
(***************************************************************************)
(* Key server (src/server.cjs): the Key collection, the administrative     *)
(* routes that mutate it and validateKey, the redemption check that binds  *)
(* a key to the first hwid presenting it.                                  *)
(*                                                                         *)
(* Time is counted in hours (the source's 60 * 60 * 1000 ms is one unit).  *)
(* Every await of the source is a point where other requests interleave:   *)
(* a handler with two store calls is two or three actions, the request's   *)
(* locals living in `inflight` between them.                               *)
(***************************************************************************)
EXTENDS Integers, Sequences, FiniteSets, TLC

\* ---- bounds of the model ------------------------------------------------
\* requests the clients send in a run of Spec, and in a run of TraceSpec
MaxRequests == 3
MaxTrace == 5
\* and in a run of StoreSpec
MaxStore == 2
\* and in a run of BulkSpec
MaxBulk == 2
\* handlers suspended at an await at the same time
MaxInflight == 2
\* the clock: it advances TickHours at a time, MaxTicks times
MaxTicks == 2
TickHours == 24

\* ---- program constants ---------------------------------------------------
HoursPerDay == 24
DefaultDays == 30
ADMIN_PASSWORD == "Arn903_346"
MSG_DENIED == "ACCESS DENIED"
MSG_LOCKED == "HWID LOCKED"
MSG_EXPIRED == "KEY EXPIRED"
LINKVERTISE_KEY_HOURS == 24
\* the ceiling of POST /api/bulk-create, and the counts GET /api/stats awaits
BulkCap == 50
StatsCounts == 7

\* ---- input alphabets -----------------------------------------------------
\* the values Math.random() may yield for a generated key
KeyPool == {"KEY_A", "KEY_B"}
\* "" stands for an absent or empty request parameter
KeyInputs == KeyPool \cup {""}
HwidInputs == {"X", "Y", ""}
Passwords == {ADMIN_PASSWORD, "wrong"}
\* the `days` body field as the characters parseInt reads; <<>> is absent
DaysInputs == {<<>>, <<"1">>, <<"-", "1">>}
CreateNotes == {""}
UpdateNotes == {"pro"}
\* the `count` body field of POST /api/bulk-create, as parseInt reads it
CountInputs == {<<>>, <<"2">>, <<"-", "1">>}

Null == "NULL"
NoDoc == [_id |-> 0]

\* ---- JavaScript numbers as far as the handlers use them ------------------
NaN == [nan |-> TRUE, n |-> 0]
Num(n) == [nan |-> FALSE, n |-> n]

Digits == <<"0", "1", "2", "3", "4", "5", "6", "7", "8", "9">>
IsDigit(c) == \E i \in 1..10 : Digits[i] = c
DigitVal(c) == (CHOOSE i \in 1..10 : Digits[i] = c) - 1

RECURSIVE DigitPrefix(_, _)
\* value of the longest prefix of digits of s, acc the value read so far
DigitPrefix(s, acc) ==
    IF s = <<>> \/ ~IsDigit(Head(s)) THEN acc
    ELSE DigitPrefix(Tail(s), 10 * acc + DigitVal(Head(s)))

parseInt(s) ==
    LET neg == s # <<>> /\ Head(s) = "-"
        rest == IF neg THEN Tail(s) ELSE s
    IN  IF rest = <<>> \/ ~IsDigit(Head(rest)) THEN NaN
        ELSE Num((IF neg THEN -1 ELSE 1) * DigitPrefix(rest, 0))

\* x || dflt on numbers: NaN and 0 are falsy
OrDefault(x, dflt) == IF x.nan \/ x.n = 0 THEN dflt ELSE x.n

VARIABLES db, now, inflight, log, left, keep, nextId
vars == <<db, now, inflight, log, left, keep, nextId>>

\* ---- the Key collection --------------------------------------------------
\* Key.findOne({ key: k }); the schema's unique index leaves at most one match
findOne(k) == IF \E d \in db : d.key = k THEN CHOOSE d \in db : d.key = k ELSE NoDoc
\* the document a loaded kData refers to: save() addresses it by _id
findById(id) == IF \E d \in db : d._id = id THEN CHOOSE d \in db : d._id = id ELSE NoDoc

\* keySchema: hwid defaults to null, created_at to Date.now
NewDoc(id, k, note, expires) ==
    [_id |-> id, key |-> k, note |-> note, hwid |-> Null,
     created_at |-> now, expires |-> expires]

\* ---- requests and responses ----------------------------------------------
\* locals of a handler suspended at an await
\* (born: how many of the retained responses had been sent when it arrived)
Req(slot, op, k, hwid, days, pc, doc, at, val) ==
    [slot |-> slot, op |-> op, key |-> k, hwid |-> hwid, days |-> days,
     pc |-> pc, kData |-> doc, at |-> at, val |-> val, born |-> Len(log)]

\* what a finished request answered: ret is validateKey's return value (or the
\* success flag of an admin route), kData the document the handler had loaded,
\* pre the stored document its write replaced, at the Date.now() it compared
\* with, val the number it reports
Entry(op, k, hwid, status, msg, ret, doc, pre, at, val) ==
    [op |-> op, key |-> k, hwid |-> hwid, status |-> status, msg |-> msg,
     ret |-> ret, kData |-> doc, pre |-> pre, at |-> at, val |-> val,
     born |-> Len(log)]

\* the responses sent so far, of which the last `keep` are retained
Respond(e) ==
    LET all == Append(log, e)
    IN  log' = IF Len(all) > keep THEN Tail(all) ELSE all

\* the response of a handler that had been suspended
RespondTo(r, e) == Respond([e EXCEPT !.born = r.born])

\* a request arrives
Arrive == left > 0 /\ left' = left - 1
CanAwait == Cardinality(inflight) < MaxInflight
FreeSlot == CHOOSE i \in 1..MaxInflight : \A r \in inflight : r.slot # i

Suspend(r) == inflight' = inflight \cup {r}
Resume(r, r2) == inflight' = (inflight \ {r}) \cup {r2}
Finish(r) == inflight' = inflight \ {r}

\* ---- AUTH MIDDLEWARE -----------------------------------------------------
\* requireAuth letting every password but the empty one through
requireAuthLax(pass) == pass # ""

requireAuth(pass) == pass = ADMIN_PASSWORD

InitWith(requests, window) ==
    /\ db = {}
    /\ now = 0
    /\ inflight = {}
    /\ log = <<>>
    /\ left = requests
    /\ keep = window
    /\ nextId = 1

Init == InitWith(MaxRequests, 1)

\* Tick with a TTL index on expires: the store drops what has expired
TickWithTTL ==
    /\ now + TickHours <= MaxTicks * TickHours
    /\ now' = now + TickHours
    /\ db' = {d \in db : d.expires >= now'}
    /\ UNCHANGED <<inflight, log, left, keep, nextId>>

\* the clock advances between any two steps
Tick ==
    /\ now + TickHours <= MaxTicks * TickHours
    /\ now' = now + TickHours
    /\ UNCHANGED <<db, inflight, log, left, keep, nextId>>

\* requireAuth rejecting the request, whatever the route
AdminDenied(op, pass) ==
    /\ Arrive
    /\ ~requireAuth(pass)
    /\ Respond(Entry("requireAuth", "", "", 403, "Invalid Admin Password", FALSE, NoDoc, NoDoc, 0, 0))
    /\ UNCHANGED <<db, now, inflight, keep, nextId>>

\* Create replacing the record that holds the generated key
CreateOverwrites(pass, days, note, k) ==
    /\ Arrive
    /\ requireAuth(pass)
    /\ LET durationDays == OrDefault(parseInt(days), DefaultDays)
           doc == NewDoc(nextId, k, IF note = "" THEN "No Label" ELSE note,
                         now + durationDays * HoursPerDay)
       IN  /\ Respond(Entry("create", k, "", 200, "success", TRUE, doc, findOne(k), 0, 0))
           /\ db' = (db \ {findOne(k)}) \cup {doc}
           /\ nextId' = nextId + 1
    /\ UNCHANGED <<now, inflight, keep>>

\* Create counting the expiry from 0 instead of Date.now()
CreateFromEpoch(pass, days, note, k) ==
    /\ Arrive
    /\ requireAuth(pass)
    /\ LET durationDays == OrDefault(parseInt(days), DefaultDays)
           doc == NewDoc(nextId, k, IF note = "" THEN "No Label" ELSE note,
                         durationDays * HoursPerDay)
       IN  IF findOne(k) # NoDoc
           THEN /\ Respond(Entry("create", k, "", 500, "E11000", FALSE, NoDoc, NoDoc, 0, 0))
                /\ UNCHANGED <<db, nextId>>
           ELSE /\ Respond(Entry("create", k, "", 200, "success", TRUE, doc, NoDoc, 0, 0))
                /\ db' = db \cup {doc}
                /\ nextId' = nextId + 1
    /\ UNCHANGED <<now, inflight, keep>>

\* Create binding the new key to a device at issue
CreateBound(pass, days, note, k) ==
    /\ Arrive
    /\ requireAuth(pass)
    /\ LET durationDays == OrDefault(parseInt(days), DefaultDays)
           doc == [NewDoc(nextId, k, IF note = "" THEN "No Label" ELSE note,
                          now + durationDays * HoursPerDay) EXCEPT !.hwid = "X"]
       IN  IF findOne(k) # NoDoc
           THEN /\ Respond(Entry("create", k, "", 500, "E11000", FALSE, NoDoc, NoDoc, 0, 0))
                /\ UNCHANGED <<db, nextId>>
           ELSE /\ Respond(Entry("create", k, "", 200, "success", TRUE, doc, NoDoc, 0, 0))
                /\ db' = db \cup {doc}
                /\ nextId' = nextId + 1
    /\ UNCHANGED <<now, inflight, keep>>

\* POST /api/create
Create(pass, days, note, k) ==
    /\ Arrive
    /\ requireAuth(pass)
    /\ LET durationDays == OrDefault(parseInt(days), DefaultDays)
           doc == NewDoc(nextId, k, IF note = "" THEN "No Label" ELSE note,
                         now + durationDays * HoursPerDay)
       IN  IF findOne(k) # NoDoc
           THEN /\ Respond(Entry("create", k, "", 500, "E11000", FALSE, NoDoc, NoDoc, 0, 0))
                /\ UNCHANGED <<db, nextId>>
           ELSE /\ Respond(Entry("create", k, "", 200, "success", TRUE, doc, NoDoc, 0, 0))
                /\ db' = db \cup {doc}
                /\ nextId' = nextId + 1
    /\ UNCHANGED <<now, inflight, keep>>

\* Reset answering success without clearing hwid
ResetKeepsBinding(pass, k) ==
    /\ Arrive
    /\ requireAuth(pass)
    /\ LET d == findOne(k)
       IN  IF d = NoDoc
           THEN Respond(Entry("reset", k, "", 404, "Key not found", FALSE, NoDoc, NoDoc, 0, 0))
           ELSE Respond(Entry("reset", k, "", 200, "success", TRUE, NoDoc, d, 0, 0))
    /\ UNCHANGED <<db, now, inflight, keep, nextId>>

\* Reset as an upsert: an absent key gets a record
ResetUpsert(pass, k) ==
    /\ Arrive
    /\ requireAuth(pass)
    /\ LET d == findOne(k)
       IN  IF d = NoDoc
           THEN /\ Respond(Entry("reset", k, "", 200, "success", TRUE, NoDoc, NoDoc, 0, 0))
                /\ db' = db \cup {NewDoc(nextId, k, "No Label", now)}
                /\ nextId' = nextId + 1
           ELSE /\ Respond(Entry("reset", k, "", 200, "success", TRUE, NoDoc, d, 0, 0))
                /\ db' = (db \ {d}) \cup {[d EXCEPT !.hwid = Null]}
                /\ nextId' = nextId
    /\ UNCHANGED <<now, inflight, keep>>

\* POST /api/reset
Reset(pass, k) ==
    /\ Arrive
    /\ requireAuth(pass)
    /\ LET d == findOne(k)
       IN  IF d = NoDoc
           THEN /\ Respond(Entry("reset", k, "", 404, "Key not found", FALSE, NoDoc, NoDoc, 0, 0))
                /\ db' = db
           ELSE /\ Respond(Entry("reset", k, "", 200, "success", TRUE, NoDoc, d, 0, 0))
                /\ db' = (db \ {d}) \cup {[d EXCEPT !.hwid = Null]}
    /\ UNCHANGED <<now, inflight, keep, nextId>>

\* Delete as in the earlier version of the server: no test of the key, no 404
DeleteAlwaysSucceeds(pass, k) ==
    /\ Arrive
    /\ requireAuth(pass)
    /\ LET d == findOne(k)
       IN  /\ Respond(Entry("delete", k, "", 200, "success", TRUE, NoDoc, d, 0, 0))
           /\ db' = db \ {d}
    /\ UNCHANGED <<now, inflight, keep, nextId>>

\* POST /api/delete
Delete(pass, k) ==
    /\ Arrive
    /\ requireAuth(pass)
    /\ LET d == findOne(k)
       IN  IF k = ""
           THEN /\ Respond(Entry("delete", k, "", 400, "No key provided", FALSE, NoDoc, NoDoc, 0, 0))
                /\ db' = db
           ELSE IF d = NoDoc
           THEN /\ Respond(Entry("delete", k, "", 404, "Key not found", FALSE, NoDoc, NoDoc, 0, 0))
                /\ db' = db
           ELSE /\ Respond(Entry("delete", k, "", 200, "success", TRUE, NoDoc, d, 0, 0))
                /\ db' = db \ {d}
    /\ UNCHANGED <<now, inflight, keep, nextId>>

\* Update writing null to hwid as well
UpdateClearsBinding(pass, k, note) ==
    /\ Arrive
    /\ requireAuth(pass)
    /\ LET d == findOne(k)
       IN  IF d = NoDoc
           THEN /\ Respond(Entry("update", k, "", 404, "Key not found", FALSE, NoDoc, NoDoc, 0, 0))
                /\ db' = db
           ELSE /\ Respond(Entry("update", k, "", 200, "success", TRUE, NoDoc, d, 0, 0))
                /\ db' = (db \ {d}) \cup {[d EXCEPT !.note = note, !.hwid = Null]}
    /\ UNCHANGED <<now, inflight, keep, nextId>>

\* Update replacing the document, so that the default of created_at applies again
UpdateRestamps(pass, k, note) ==
    /\ Arrive
    /\ requireAuth(pass)
    /\ LET d == findOne(k)
       IN  IF d = NoDoc
           THEN /\ Respond(Entry("update", k, "", 404, "Key not found", FALSE, NoDoc, NoDoc, 0, 0))
                /\ db' = db
           ELSE /\ Respond(Entry("update", k, "", 200, "success", TRUE, NoDoc, d, 0, 0))
                /\ db' = (db \ {d}) \cup {[d EXCEPT !.note = note, !.created_at = now]}
    /\ UNCHANGED <<now, inflight, keep, nextId>>

\* POST /api/update
Update(pass, k, note) ==
    /\ Arrive
    /\ requireAuth(pass)
    /\ LET d == findOne(k)
       IN  IF d = NoDoc
           THEN /\ Respond(Entry("update", k, "", 404, "Key not found", FALSE, NoDoc, NoDoc, 0, 0))
                /\ db' = db
           ELSE /\ Respond(Entry("update", k, "", 200, "success", TRUE, NoDoc, d, 0, 0))
                /\ db' = (db \ {d}) \cup {[d EXCEPT !.note = note]}
    /\ UNCHANGED <<now, inflight, keep, nextId>>

\* POST /api/extend, up to the await of Key.findOne
ExtendFind(pass, k, days) ==
    /\ Arrive
    /\ requireAuth(pass)
    /\ LET kData == findOne(k)
       IN  IF kData = NoDoc
           THEN /\ Respond(Entry("extend", k, "", 404, "Key not found", FALSE, NoDoc, NoDoc, 0, 0))
                /\ inflight' = inflight
           ELSE /\ CanAwait
                /\ Suspend(Req(FreeSlot, "extend", k, "", days, "compute", kData, 0, NaN))
                /\ log' = log
    /\ UNCHANGED <<db, now, keep, nextId>>

\* ExtendedExpiry adding to the stored expiry even when it is past
ExtendedExpiryStacking(kData, t, days) ==
    LET d == parseInt(days)
    IN  IF d.nan THEN NaN ELSE Num(kData.expires + d.n * HoursPerDay)

\* ExtendedExpiry falling back to the default number of days as create does
ExtendedExpiryDefaults(kData, t, days) ==
    LET base == IF kData.expires > t THEN kData.expires ELSE t
    IN  Num(base + OrDefault(parseInt(days), DefaultDays) * HoursPerDay)

\* the expiry POST /api/extend computes from the loaded document at time t
ExtendedExpiry(kData, t, days) ==
    LET base == IF kData.expires > t THEN kData.expires ELSE t
        d == parseInt(days)
    IN  IF d.nan THEN NaN ELSE Num(base + d.n * HoursPerDay)

\* POST /api/extend, from Date.now() to the call of kData.save()
ExtendCompute(r) ==
    /\ r.op = "extend" /\ r.pc = "compute"
    /\ Resume(r, [r EXCEPT !.pc = "save", !.at = now,
                           !.val = ExtendedExpiry(r.kData, now, r.days)])
    /\ UNCHANGED <<db, now, log, left, keep, nextId>>

\* ExtendSave writing the loaded document back when the stored one is gone
ExtendSaveUpserts(r) ==
    /\ r.op = "extend" /\ r.pc = "save"
    /\ Finish(r)
    /\ LET d == findById(r.kData._id)
       IN  IF r.val.nan
           THEN /\ RespondTo(r, Entry("extend", r.key, "", 500, "save failed", FALSE, r.kData, NoDoc, r.at, 0))
                /\ db' = db
           ELSE /\ RespondTo(r, Entry("extend", r.key, "", 200, "success", TRUE, r.kData, d, r.at, r.val.n))
                /\ db' = (db \ {d}) \cup {[(IF d = NoDoc THEN r.kData ELSE d) EXCEPT !.expires = r.val.n]}
    /\ UNCHANGED <<now, left, keep, nextId>>

\* ExtendSave writing every field of the loaded document, not only expires
ExtendSaveWholeDoc(r) ==
    /\ r.op = "extend" /\ r.pc = "save"
    /\ Finish(r)
    /\ LET d == findById(r.kData._id)
       IN  IF r.val.nan \/ d = NoDoc
           THEN /\ RespondTo(r, Entry("extend", r.key, "", 500, "save failed", FALSE, r.kData, NoDoc, r.at, 0))
                /\ db' = db
           ELSE /\ RespondTo(r, Entry("extend", r.key, "", 200, "success", TRUE, r.kData, d, r.at, r.val.n))
                /\ db' = (db \ {d}) \cup {[r.kData EXCEPT !.expires = r.val.n]}
    /\ UNCHANGED <<now, left, keep, nextId>>

\* ExtendSave treating the renewal as a new issue: it clears hwid
ExtendSaveResets(r) ==
    /\ r.op = "extend" /\ r.pc = "save"
    /\ Finish(r)
    /\ LET d == findById(r.kData._id)
       IN  IF r.val.nan \/ d = NoDoc
           THEN /\ RespondTo(r, Entry("extend", r.key, "", 500, "save failed", FALSE, r.kData, NoDoc, r.at, 0))
                /\ db' = db
           ELSE /\ RespondTo(r, Entry("extend", r.key, "", 200, "success", TRUE, r.kData, d, r.at, r.val.n))
                /\ db' = (db \ {d}) \cup {[d EXCEPT !.expires = r.val.n, !.hwid = Null]}
    /\ UNCHANGED <<now, left, keep, nextId>>

\* POST /api/extend, kData.save() and the response. save() validates expires
\* (a NaN is no Number), then sets the modified path on the document with
\* kData's _id, and rejects when that document is gone.
ExtendSave(r) ==
    /\ r.op = "extend" /\ r.pc = "save"
    /\ Finish(r)
    /\ LET d == findById(r.kData._id)
       IN  IF r.val.nan \/ d = NoDoc
           THEN /\ RespondTo(r, Entry("extend", r.key, "", 500, "save failed", FALSE, r.kData, NoDoc, r.at, 0))
                /\ db' = db
           ELSE /\ RespondTo(r, Entry("extend", r.key, "", 200, "success", TRUE, r.kData, d, r.at, r.val.n))
                /\ db' = (db \ {d}) \cup {[d EXCEPT !.expires = r.val.n]}
    /\ UNCHANGED <<now, left, keep, nextId>>

\* ValidateFind without the test of the parameters
ValidateFindUnchecked(k, hwid) ==
    /\ Arrive
    /\ CanAwait
    /\ Suspend(Req(FreeSlot, "validateKey", k, hwid, <<>>, "check", findOne(k), 0, NaN))
    /\ UNCHANGED <<db, now, log, keep, nextId>>

\* validateKey, up to the await of Key.findOne
ValidateFind(k, hwid) ==
    /\ Arrive
    /\ IF k = "" \/ hwid = ""
       THEN /\ Respond(Entry("validateKey", k, hwid, 403, MSG_DENIED, FALSE, NoDoc, NoDoc, 0, 0))
            /\ inflight' = inflight
       ELSE /\ CanAwait
            /\ Suspend(Req(FreeSlot, "validateKey", k, hwid, <<>>, "check", findOne(k), 0, NaN))
            /\ log' = log
    /\ UNCHANGED <<db, now, keep, nextId>>

\* Verdict binding an unbound key before it looks at the expiry
VerdictBindFirst(kData, hwid, t) ==
    IF kData = NoDoc THEN MSG_DENIED
    ELSE IF kData.hwid = Null THEN "bind"
    ELSE IF t > kData.expires THEN MSG_EXPIRED
    ELSE IF kData.hwid # hwid THEN MSG_LOCKED
    ELSE "pass"

\* Verdict without the comparison of Date.now() with kData.expires
VerdictNoExpiry(kData, hwid, t) ==
    IF kData = NoDoc THEN MSG_DENIED
    ELSE IF kData.hwid = Null THEN "bind"
    ELSE IF kData.hwid # hwid THEN MSG_LOCKED
    ELSE "pass"

\* Verdict taking a key for expired from the instant of its expires on
VerdictExpiresInclusive(kData, hwid, t) ==
    IF kData = NoDoc THEN MSG_DENIED
    ELSE IF t >= kData.expires THEN MSG_EXPIRED
    ELSE IF kData.hwid = Null THEN "bind"
    ELSE IF kData.hwid # hwid THEN MSG_LOCKED
    ELSE "pass"

\* validateKey's decision on the loaded document at time t
Verdict(kData, hwid, t) ==
    IF kData = NoDoc THEN MSG_DENIED
    ELSE IF t > kData.expires THEN MSG_EXPIRED
    ELSE IF kData.hwid = Null THEN "bind"
    ELSE IF kData.hwid # hwid THEN MSG_LOCKED
    ELSE "pass"

\* ValidateCheck in a route that goes on after validateKey returned false:
\* the payload follows the denial
ValidateCheckFallsThrough(r) ==
    /\ r.op = "validateKey" /\ r.pc = "check"
    /\ LET v == Verdict(r.kData, r.hwid, now)
           sent == Entry("validateKey", r.key, r.hwid, 200, "payload", v = "pass", r.kData, NoDoc, now, 0)
       IN  IF v = "bind"
           THEN /\ Resume(r, [r EXCEPT !.pc = "save", !.at = now])
                /\ log' = log
           ELSE IF v = "pass"
           THEN /\ Finish(r)
                /\ RespondTo(r, sent)
           ELSE /\ Finish(r)
                /\ log' = log \o << Entry("validateKey", r.key, r.hwid, 403, v, FALSE, r.kData, NoDoc, now, 0),
                                   sent >>
    /\ UNCHANGED <<db, now, left, keep, nextId>>

\* validateKey, from the result of findOne to the call of kData.save() or the return
ValidateCheck(r) ==
    /\ r.op = "validateKey" /\ r.pc = "check"
    /\ LET v == Verdict(r.kData, r.hwid, now)
       IN  IF v = "bind"
           THEN /\ Resume(r, [r EXCEPT !.pc = "save", !.at = now])
                /\ log' = log
           ELSE IF v = "pass"
           THEN /\ Finish(r)
                /\ RespondTo(r, Entry("validateKey", r.key, r.hwid, 200, "payload", TRUE, r.kData, NoDoc, now, 0))
           ELSE /\ Finish(r)
                /\ RespondTo(r, Entry("validateKey", r.key, r.hwid, 403, v, FALSE, r.kData, NoDoc, now, 0))
    /\ UNCHANGED <<db, now, left, keep, nextId>>

\* ValidateSave returning true without the write reaching the store
ValidateSaveLost(r) ==
    /\ r.op = "validateKey" /\ r.pc = "save"
    /\ Finish(r)
    /\ RespondTo(r, Entry("validateKey", r.key, r.hwid, 200, "payload", TRUE, r.kData, NoDoc, r.at, 0))
    /\ UNCHANGED <<db, now, left, keep, nextId>>

\* ValidateSave as a compare-and-set that denies whoever finds the key bound,
\* without comparing the binding with its own hwid
ValidateSaveCAS(r) ==
    /\ r.op = "validateKey" /\ r.pc = "save"
    /\ Finish(r)
    /\ LET d == findById(r.kData._id)
       IN  IF d = NoDoc
           THEN /\ RespondTo(r, Entry("validateKey", r.key, r.hwid, 500, "Database Error", FALSE, r.kData, NoDoc, r.at, 0))
                /\ db' = db
           ELSE IF d.hwid # Null
           THEN /\ RespondTo(r, Entry("validateKey", r.key, r.hwid, 403, MSG_LOCKED, FALSE, r.kData, d, r.at, 0))
                /\ db' = db
           ELSE /\ RespondTo(r, Entry("validateKey", r.key, r.hwid, 200, "payload", TRUE, r.kData, d, r.at, 0))
                /\ db' = (db \ {d}) \cup {[d EXCEPT !.hwid = r.hwid]}
    /\ UNCHANGED <<now, left, keep, nextId>>

\* validateKey, kData.save() after kData.hwid = hwid, and the return
ValidateSave(r) ==
    /\ r.op = "validateKey" /\ r.pc = "save"
    /\ Finish(r)
    /\ LET d == findById(r.kData._id)
       IN  IF d = NoDoc
           THEN /\ RespondTo(r, Entry("validateKey", r.key, r.hwid, 500, "Database Error", FALSE, r.kData, NoDoc, r.at, 0))
                /\ db' = db
           ELSE /\ RespondTo(r, Entry("validateKey", r.key, r.hwid, 200, "payload", TRUE, r.kData, d, r.at, 0))
                /\ db' = (db \ {d}) \cup {[d EXCEPT !.hwid = r.hwid]}
    /\ UNCHANGED <<now, left, keep, nextId>>

\* ---- the routes that delete or create several records --------------------
\* the collection without the unique index on key
NoUniqueIndex(k) == FALSE

\* Key.create rejects a key the unique index already holds (E11000)
Collides(k) == findOne(k) # NoDoc

\* (a / b) rounded up, b > 0, as Math.ceil rounds
Ceil(a, b) == -((-a) \div b)
Max(a, b) == IF a >= b THEN a ELSE b
Min(a, b) == IF a <= b THEN a ELSE b

\* Purge deleting the records that expire at Date.now() as well
PurgeInclusive(pass) ==
    /\ Arrive
    /\ requireAuth(pass)
    /\ LET gone == {d \in db : d.expires <= now}
       IN  /\ db' = db \ gone
           /\ Respond(Entry("purge", "", "", 200, "success", TRUE, NoDoc, NoDoc, now, Cardinality(gone)))
    /\ UNCHANGED <<now, inflight, keep, nextId>>

\* POST /api/purge: deleteMany({ expires: { $lt: Date.now() } })
Purge(pass) ==
    /\ Arrive
    /\ requireAuth(pass)
    /\ LET gone == {d \in db : d.expires < now}
       IN  /\ db' = db \ gone
           /\ Respond(Entry("purge", "", "", 200, "success", TRUE, NoDoc, NoDoc, now, Cardinality(gone)))
    /\ UNCHANGED <<now, inflight, keep, nextId>>

\* GET /api/keys
List(pass) ==
    /\ Arrive
    /\ requireAuth(pass)
    /\ Respond(Entry("list", "", "", 200, "keys", TRUE, NoDoc, NoDoc, 0, Cardinality(db)))
    /\ UNCHANGED <<db, now, inflight, keep, nextId>>

\* GET /api/stats, up to the first await of countDocuments
StatsStart(pass) ==
    /\ Arrive
    /\ requireAuth(pass)
    /\ CanAwait
    /\ Suspend(Req(FreeSlot, "stats", "", "", <<>>, "count", NoDoc, now, Num(0)))
    /\ UNCHANGED <<db, now, log, keep, nextId>>

\* GET /api/stats, one countDocuments returning; after the last, the response
\* (val: the counts that returned, total the first of them)
StatsCount(r) ==
    /\ r.op = "stats" /\ r.pc = "count"
    /\ IF r.val.n + 1 < StatsCounts
       THEN /\ Resume(r, [r EXCEPT !.val = Num(r.val.n + 1)])
            /\ log' = log
       ELSE /\ Finish(r)
            /\ RespondTo(r, Entry("stats", "", "", 200, "stats", TRUE, NoDoc, NoDoc, r.at, r.val.n + 1))
    /\ UNCHANGED <<db, now, left, keep, nextId>>

\* GET /getkey: no requireAuth in front of it
GetKey(k) ==
    /\ Arrive
    /\ LET doc == NewDoc(nextId, k, "Linkvertise", now + LINKVERTISE_KEY_HOURS)
       IN  IF Collides(k)
           THEN /\ Respond(Entry("getkey", k, "", 500, "Error generating key. Please try again.", FALSE, NoDoc, NoDoc, 0, 0))
                /\ UNCHANGED <<db, nextId>>
           ELSE /\ Respond(Entry("getkey", k, "", 302, "/showkey", TRUE, doc, NoDoc, 0, 0))
                /\ db' = db \cup {doc}
                /\ nextId' = nextId + 1
    /\ UNCHANGED <<now, inflight, keep>>

\* BulkNum without the ceiling
BulkNumUncapped(count) == OrDefault(parseInt(count), 1)

\* the number of keys POST /api/bulk-create sets out to create
BulkNum(count) == Min(OrDefault(parseInt(count), 1), BulkCap)

\* locals of POST /api/bulk-create between two awaits of Key.create
BulkReq(slot, num, days, note, keys) ==
    [slot |-> slot, op |-> "bulk-create", pc |-> "create", num |-> num,
     days |-> days, note |-> note, keys |-> keys, born |-> Len(log)]

\* POST /api/bulk-create, up to the first await of Key.create
BulkStart(pass, count, days, note) ==
    /\ Arrive
    /\ requireAuth(pass)
    /\ IF BulkNum(count) <= 0
       THEN /\ Respond(Entry("bulk-create", "", "", 200, "success", TRUE, NoDoc, NoDoc, 0, 0))
            /\ inflight' = inflight
       ELSE /\ CanAwait
            /\ Suspend(BulkReq(FreeSlot, BulkNum(count), days, note, <<>>))
            /\ log' = log
    /\ UNCHANGED <<db, now, keep, nextId>>

\* POST /api/bulk-create, one Key.create with the generated key k returning:
\* the loop goes on, ends with the response (val: the number of keys it
\* lists), or the catch answers (with the error's message and no keys)
BulkCreate(r, k) ==
    /\ r.op = "bulk-create" /\ r.pc = "create"
    /\ LET durationDays == OrDefault(parseInt(r.days), DefaultDays)
           doc == NewDoc(nextId, k, IF r.note = "" THEN "Bulk Generated" ELSE r.note,
                         now + durationDays * HoursPerDay)
           keys == Append(r.keys, k)
       IN  IF Collides(k)
           THEN /\ Finish(r)
                /\ RespondTo(r, Entry("bulk-create", k, "", 500, "E11000", FALSE, NoDoc, NoDoc, 0, 0))
                /\ UNCHANGED <<db, nextId>>
           ELSE /\ db' = db \cup {doc}
                /\ nextId' = nextId + 1
                /\ IF Len(keys) < r.num
                   THEN /\ Resume(r, [r EXCEPT !.keys = keys])
                        /\ log' = log
                   ELSE /\ Finish(r)
                        /\ RespondTo(r, Entry("bulk-create", k, "", 200, "success", TRUE, doc, NoDoc, 0, Len(keys)))
    /\ UNCHANGED <<now, left, keep>>

\* POST /api/duplicate, up to the await of Key.findOne
DuplicateFind(pass, k) ==
    /\ Arrive
    /\ requireAuth(pass)
    /\ LET original == findOne(k)
       IN  IF original = NoDoc
           THEN /\ Respond(Entry("duplicate", k, "", 404, "Key not found", FALSE, NoDoc, NoDoc, 0, 0))
                /\ inflight' = inflight
           ELSE /\ CanAwait
                /\ Suspend(Req(FreeSlot, "duplicate", k, "", <<>>, "create", original, 0, NaN))
                /\ log' = log
    /\ UNCHANGED <<db, now, keep, nextId>>

\* DuplicateCreate copying the hwid of the original
DuplicateCopiesBinding(r, k) ==
    /\ r.op = "duplicate" /\ r.pc = "create"
    /\ Finish(r)
    /\ LET daysLeft == Max(1, Ceil(r.kData.expires - now, HoursPerDay))
           doc == [NewDoc(nextId, k, r.kData.note \o " (copy)", now + daysLeft * HoursPerDay)
                     EXCEPT !.hwid = r.kData.hwid]
       IN  IF Collides(k)
           THEN /\ RespondTo(r, Entry("duplicate", k, "", 500, "E11000", FALSE, r.kData, NoDoc, now, 0))
                /\ UNCHANGED <<db, nextId>>
           ELSE /\ RespondTo(r, Entry("duplicate", k, "", 200, "success", TRUE, doc, r.kData, now, 0))
                /\ db' = db \cup {doc}
                /\ nextId' = nextId + 1
    /\ UNCHANGED <<now, left, keep>>

\* DuplicateCreate rounding the remaining days down
DuplicateRoundsDown(r, k) ==
    /\ r.op = "duplicate" /\ r.pc = "create"
    /\ Finish(r)
    /\ LET daysLeft == Max(1, (r.kData.expires - now) \div HoursPerDay)
           doc == NewDoc(nextId, k, r.kData.note \o " (copy)", now + daysLeft * HoursPerDay)
       IN  IF Collides(k)
           THEN /\ RespondTo(r, Entry("duplicate", k, "", 500, "E11000", FALSE, r.kData, NoDoc, now, 0))
                /\ UNCHANGED <<db, nextId>>
           ELSE /\ RespondTo(r, Entry("duplicate", k, "", 200, "success", TRUE, doc, r.kData, now, 0))
                /\ db' = db \cup {doc}
                /\ nextId' = nextId + 1
    /\ UNCHANGED <<now, left, keep>>

\* POST /api/duplicate, Key.create with the generated key k and the response
\* (in the response's entry kData is the new document, pre the original)
DuplicateCreate(r, k) ==
    /\ r.op = "duplicate" /\ r.pc = "create"
    /\ Finish(r)
    /\ LET daysLeft == Max(1, Ceil(r.kData.expires - now, HoursPerDay))
           doc == NewDoc(nextId, k, r.kData.note \o " (copy)", now + daysLeft * HoursPerDay)
       IN  IF Collides(k)
           THEN /\ RespondTo(r, Entry("duplicate", k, "", 500, "E11000", FALSE, r.kData, NoDoc, now, 0))
                /\ UNCHANGED <<db, nextId>>
           ELSE /\ RespondTo(r, Entry("duplicate", k, "", 200, "success", TRUE, doc, r.kData, now, 0))
                /\ db' = db \cup {doc}
                /\ nextId' = nextId + 1
    /\ UNCHANGED <<now, left, keep>>

\* ---- store calls that fail ------------------------------------------------
\* the routes whose handler answers right after its first store call returns
\* or, for validateKey, extend and duplicate, goes on from it
FirstCallOps ==
    {"list", "create", "reset", "delete", "update", "extend", "purge", "duplicate",
     "getkey", "validateKey"}

\* a request arrives and its first store call rejects: the handler is
\* suspended at the await, its catch block to run
Rejects(op, pass, k, hwid) ==
    /\ Arrive
    /\ CASE op = "validateKey" -> k # "" /\ hwid # ""
         [] op = "getkey" -> TRUE
         [] op = "delete" -> requireAuth(pass) /\ k # ""
         [] OTHER -> requireAuth(pass)
    /\ CanAwait
    /\ Suspend(Req(FreeSlot, op, k, hwid, <<>>, "catch", NoDoc, 0, NaN))
    /\ UNCHANGED <<db, now, log, keep, nextId>>

\* the pending store call of a suspended handler (a save, a create, a count)
\* rejects, the call having changed nothing
RejectsLater(r) ==
    /\ r.pc \in {"save", "create", "count"}
    /\ Resume(r, [r EXCEPT !.pc = "catch"])
    /\ UNCHANGED <<db, now, log, left, keep, nextId>>

\* Catch going on as if the store call had returned
CatchSwallows(r) ==
    /\ r.pc = "catch"
    /\ Finish(r)
    /\ RespondTo(r, Entry(r.op, "", "", 200, "success", TRUE, NoDoc, NoDoc, 0, 0))
    /\ UNCHANGED <<db, now, left, keep, nextId>>

\* Catch that logs the error and sends nothing
CatchSilent(r) ==
    /\ r.pc = "catch"
    /\ UNCHANGED vars

\* the catch block of the handler whose store call rejected
Catch(r) ==
    /\ r.pc = "catch"
    /\ Finish(r)
    /\ IF r.op = "bulk-create"
       THEN RespondTo(r, Entry(r.op, "", "", 500, "e.message", FALSE, NoDoc, NoDoc, 0, 0))
       ELSE RespondTo(r, Entry(r.op, r.key, r.hwid, 500,
                               CASE r.op = "validateKey" -> "Database Error"
                                 [] r.op = "getkey" -> "Error generating key. Please try again."
                                 [] OTHER -> "e.message",
                               FALSE, r.kData, NoDoc, r.at, 0))
    /\ UNCHANGED <<db, now, left, keep, nextId>>

AdminOps ==
    {"list", "create", "reset", "delete", "update", "extend", "purge", "bulk-create",
     "stats", "duplicate"}

Start ==
    \/ \E op \in AdminOps, pass \in Passwords : AdminDenied(op, pass)
    \/ \E pass \in Passwords, days \in DaysInputs, note \in CreateNotes, k \in KeyPool :
          Create(pass, days, note, k)
    \/ \E pass \in Passwords, k \in KeyInputs : Reset(pass, k)
    \/ \E pass \in Passwords, k \in KeyInputs : Delete(pass, k)
    \/ \E pass \in Passwords, k \in KeyInputs, note \in UpdateNotes : Update(pass, k, note)
    \/ \E pass \in Passwords, k \in KeyInputs, days \in DaysInputs : ExtendFind(pass, k, days)
    \/ \E k \in KeyInputs, hwid \in HwidInputs : ValidateFind(k, hwid)

Continue ==
    \/ \E r \in inflight : ExtendCompute(r)
    \/ \E r \in inflight : ExtendSave(r)
    \/ \E r \in inflight : ValidateCheck(r)
    \/ \E r \in inflight : ValidateSave(r)

Next == Tick \/ Start \/ Continue

Spec == Init /\ [][Next]_vars

\* ---- one key, every response retained ------------------------------------
\* The requests on one key by two devices and the administrator, all of
\* whose responses are kept in `log`. The clock stands still: the key is
\* created lasting a day, or already expired.
TraceInit == InitWith(MaxTrace, MaxTrace)

TraceNext ==
    \/ \E days \in {<<"1">>, <<"-", "1">>} : Create(ADMIN_PASSWORD, days, "", "KEY_A")
    \/ Reset(ADMIN_PASSWORD, "KEY_A")
    \/ \E hwid \in {"X", "Y"} : ValidateFind("KEY_A", hwid)
    \/ \E r \in inflight : ValidateCheck(r)
    \/ \E r \in inflight : ValidateSave(r)

TraceSpec == TraceInit /\ [][TraceNext]_vars

\* ---- every route on one key, and store calls that fail --------------------
\* The administrator and one device, each store call returning or rejecting.
\* The clock stands still.
StoreInit == InitWith(MaxStore, 1)

StoreStart ==
    \/ \E op \in AdminOps : AdminDenied(op, "wrong")
    \/ Create(ADMIN_PASSWORD, <<"1">>, "", "KEY_A")
    \/ Reset(ADMIN_PASSWORD, "KEY_A")
    \/ Delete(ADMIN_PASSWORD, "KEY_A")
    \/ Update(ADMIN_PASSWORD, "KEY_A", "pro")
    \/ ExtendFind(ADMIN_PASSWORD, "KEY_A", <<"1">>)
    \/ ValidateFind("KEY_A", "X")
    \/ Purge(ADMIN_PASSWORD)
    \/ List(ADMIN_PASSWORD)
    \/ StatsStart(ADMIN_PASSWORD)
    \/ GetKey("KEY_A")
    \/ BulkStart(ADMIN_PASSWORD, <<"2">>, <<"1">>, "")
    \/ DuplicateFind(ADMIN_PASSWORD, "KEY_A")
    \/ \E op \in FirstCallOps : Rejects(op, ADMIN_PASSWORD, "KEY_A", "X")

StoreContinue ==
    \/ \E r \in inflight : ExtendCompute(r)
    \/ \E r \in inflight : ExtendSave(r)
    \/ \E r \in inflight : ValidateCheck(r)
    \/ \E r \in inflight : ValidateSave(r)
    \/ \E r \in inflight : StatsCount(r)
    \/ \E r \in inflight, k \in KeyPool : BulkCreate(r, k)
    \/ \E r \in inflight : DuplicateCreate(r, "KEY_B")
    \/ \E r \in inflight : RejectsLater(r)
    \/ \E r \in inflight : Catch(r)

StoreNext == StoreStart \/ StoreContinue

StoreSpec == StoreInit /\ [][StoreNext]_vars

\* ---- the routes that add and remove records -------------------------------
\* The administrator issuing, duplicating, deleting and purging keys, and
\* GET /getkey, while the clock advances.
IssueInit == InitWith(MaxRequests, 1)

IssueStart ==
    \/ \E days \in DaysInputs, k \in KeyPool : Create(ADMIN_PASSWORD, days, "", k)
    \/ \E k \in KeyPool : GetKey(k)
    \/ \E count \in CountInputs : BulkStart(ADMIN_PASSWORD, count, <<"1">>, "")
    \/ \E k \in KeyInputs : DuplicateFind(ADMIN_PASSWORD, k)
    \/ \E k \in KeyInputs : Delete(ADMIN_PASSWORD, k)
    \/ Purge(ADMIN_PASSWORD)

IssueContinue ==
    \/ \E r \in inflight, k \in KeyPool : BulkCreate(r, k)
    \/ \E r \in inflight, k \in KeyPool : DuplicateCreate(r, k)

IssueNext == Tick \/ IssueStart \/ IssueContinue

IssueSpec == IssueInit /\ [][IssueNext]_vars

\* ---- one key, every route that reads or writes its record ------------------
\* The administrator and two devices working on KEY_A (and on its duplicate,
\* KEY_B) while the clock advances.
RecordInit == InitWith(MaxRequests, 1)

RecordStart ==
    \/ Create(ADMIN_PASSWORD, <<"1">>, "", "KEY_A")
    \/ Reset(ADMIN_PASSWORD, "KEY_A")
    \/ Delete(ADMIN_PASSWORD, "KEY_A")
    \/ Update(ADMIN_PASSWORD, "KEY_A", "pro")
    \/ ExtendFind(ADMIN_PASSWORD, "KEY_A", <<"1">>)
    \/ \E hwid \in {"X", "Y"} : ValidateFind("KEY_A", hwid)
    \/ Purge(ADMIN_PASSWORD)
    \/ List(ADMIN_PASSWORD)
    \/ DuplicateFind(ADMIN_PASSWORD, "KEY_A")

RecordContinue ==
    \/ \E r \in inflight : ExtendCompute(r)
    \/ \E r \in inflight : ExtendSave(r)
    \/ \E r \in inflight : ValidateCheck(r)
    \/ \E r \in inflight : ValidateSave(r)
    \/ \E r \in inflight : DuplicateCreate(r, "KEY_B")

RecordNext == Tick \/ RecordStart \/ RecordContinue

RecordSpec == RecordInit /\ [][RecordNext]_vars

\* ---- bulk-create on its own, up to its ceiling ------------------------------
\* the `count` inputs: absent, 0, -1, not a number, 3, and two above the ceiling
BulkCounts ==
    {<<>>, <<"0">>, <<"-", "1">>, <<"x">>, <<"3">>, <<"5", "1">>, <<"9", "9">>}
\* a key Math.random() yields that no record holds
FreshKey == "KEY_" \o ToString(nextId)

BulkInit == InitWith(MaxBulk, MaxBulk)

\* The requests arrive one after the other; each Key.create draws a key no
\* record holds, or the key of the first record.
BulkNext ==
    \/ inflight = {} /\ \E count \in BulkCounts : BulkStart(ADMIN_PASSWORD, count, <<"1">>, "")
    \/ \E r \in inflight : BulkCreate(r, FreshKey)
    \/ \E r \in inflight, d \in db : d._id = 1 /\ BulkCreate(r, d.key)

BulkSpec == BulkInit /\ [][BulkNext]_vars

\* ---- every pending store call returns ---------------------------------------
\* The routes of StoreSpec and a bulk-create that asks for more keys than the
\* ceiling (it is the last request to arrive, once the others are answered;
\* its creates draw a key no record holds, or the key of the first record).
\* A store call that is pending returns, with a result or with an error.
LiveInit == InitWith(MaxStore, 1)

LongBulk(r) == r.op = "bulk-create" /\ r.num = BulkCap

LiveStart ==
    \/ (\A r \in inflight : ~LongBulk(r)) /\ StoreStart
    \/ inflight = {} /\ left = 1 /\ BulkStart(ADMIN_PASSWORD, <<"9", "9">>, <<"1">>, "")

LiveContinue ==
    \/ (\A r \in inflight : ~LongBulk(r)) /\ StoreContinue
    \/ \E r \in inflight : LongBulk(r) /\ BulkCreate(r, FreshKey)
    \/ \E r \in inflight, d \in db : LongBulk(r) /\ d._id = 1 /\ BulkCreate(r, d.key)
    \/ \E r \in inflight : LongBulk(r) /\ (RejectsLater(r) \/ Catch(r))

LiveNext == LiveStart \/ LiveContinue

LiveSpec == LiveInit /\ [][LiveNext]_vars /\ WF_vars(LiveContinue)

\* ---- duplicate with a clock that advances by parts of a day ----------------
\* the clock advances by half a tick
TickHalf ==
    /\ now + TickHours \div 2 <= MaxTicks * TickHours
    /\ now' = now + TickHours \div 2
    /\ UNCHANGED <<db, inflight, log, left, keep, nextId>>

DupInit == InitWith(MaxStore, 1)

DupNext ==
    \/ Tick
    \/ TickHalf
    \/ \E days \in DaysInputs : Create(ADMIN_PASSWORD, days, "", "KEY_A")
    \/ DuplicateFind(ADMIN_PASSWORD, "KEY_A")
    \/ \E r \in inflight : DuplicateCreate(r, "KEY_B")

DupSpec == DupInit /\ [][DupNext]_vars

\* ---- extend with day counts of every kind ----------------------------------
ExtendDays == {<<>>, <<"x">>, <<"1">>, <<"1", "x">>}

ExtendInit == InitWith(MaxStore, 1)

ExtendNext ==
    \/ Tick
    \/ Create(ADMIN_PASSWORD, <<"1">>, "", "KEY_A")
    \/ \E days \in ExtendDays : ExtendFind(ADMIN_PASSWORD, "KEY_A", days)
    \/ Update(ADMIN_PASSWORD, "KEY_A", "pro")
    \/ \E r \in inflight : ExtendCompute(r)
    \/ \E r \in inflight : ExtendSave(r)

ExtendSpec == ExtendInit /\ [][ExtendNext]_vars

\* ---- the claims ----------------------------------------------------------
Responses == {log[i] : i \in 1..Len(log)}
Last(q) == q[Len(q)]
Authorized(e) == e.op = "validateKey" /\ e.ret
Expired(e) == e.op = "validateKey" /\ ~e.ret /\ e.msg = MSG_EXPIRED
DeviceMismatch(e) == e.op = "validateKey" /\ ~e.ret /\ e.msg = MSG_LOCKED
\* the redemption read its key unbound and found it unexpired
FirstUse(e) ==
    e.op = "validateKey" /\ e.kData # NoDoc /\ e.kData.hwid = Null /\ e.at <= e.kData.expires
\* the redemption read a key that exists and found it unexpired
Unexpired(e) == e.op = "validateKey" /\ e.kData # NoDoc /\ e.at <= e.kData.expires
\* response j is of a request that arrived after response j - 1 was sent
Fresh(j) == log[j].born >= j - 1
\* this step is a request of route op arriving and being answered at once
Answered(op) ==
    left' = left - 1 /\ inflight' = inflight /\ log' # <<>> /\ Last(log').op = op
\* this step resumes the suspended handler r
Stepped(r) == r \in inflight /\ r \notin inflight'
\* and it ends it
Ended(r) == Stepped(r) /\ \A r2 \in inflight' : r2.slot # r.slot

\* C1: a redemption that returns Authorized had loaded a record (the record
\* existed), compared it with a Date.now() not after its expires, and found
\* its hwid null or equal to the hwid presented.
C1_AuthorizedImpliesValid ==
    \A e \in Responses : Authorized(e) =>
        /\ e.kData # NoDoc
        /\ e.at <= e.kData.expires
        /\ e.kData.hwid \in {Null, e.hwid}

\* a redemption was authorized on a record already bound to its device
C1_Witness ==
    \E e \in Responses : Authorized(e) /\ e.kData # NoDoc /\ e.kData.hwid = e.hwid

\* C2: when two or more redemptions with pairwise distinct hwids have read the
\* same key unbound and unexpired (no reset having intervened, so they ran
\* concurrently) and all requests have finished, exactly one of them returned
\* Authorized, every other one DeviceMismatch, and the key is bound to the
\* hwid of the Authorized one.
C2_ExactlyOneBinds ==
    LET S == {i \in 1..Len(log) : FirstUse(log[i])}
        W == {i \in S : Authorized(log[i])}
    IN  (/\ inflight = {}
         /\ Cardinality(S) >= 2
         /\ \A i, j \in S : i # j => log[i].hwid # log[j].hwid
         /\ \A i \in 1..Len(log) : log[i].op # "reset")
        => /\ Cardinality(W) = 1
           /\ \A i \in S \ W : DeviceMismatch(log[i])
           /\ \A i \in W : findOne(log[i].key).hwid = log[i].hwid

\* C3: a step never changes a non-null hwid of a record that stays in the
\* store, except that POST /api/reset sets it to null.
C3_BindingOnlyClearedByReset ==
    [][\A d \in db : \A d2 \in db' : (d2._id = d._id /\ d.hwid # Null) =>
          \/ d2.hwid = d.hwid
          \/ (d2.hwid = Null /\ Answered("reset"))]_vars

\* C4: a redemption that loaded a record and finds Date.now() past its
\* expires answers Expired, whatever the record's hwid, and leaves the store
\* as it is.
C4_ExpiredBeforeBinding ==
    [][\A r \in inflight :
          (/\ r.op = "validateKey" /\ r.pc = "check" /\ Stepped(r)
           /\ r.kData # NoDoc /\ now > r.kData.expires) =>
              /\ Ended(r)
              /\ Expired(Last(log')) /\ Last(log').key = r.key /\ Last(log').hwid = r.hwid
              /\ db' = db]_vars

\* an expired key bound to the device that presents it was refused as Expired
C4_Witness ==
    \E e \in Responses : Expired(e) /\ e.kData.hwid = e.hwid /\ e.at > e.kData.expires

\* C5: when a redemption binds an unbound, unexpired key to d and the next
\* response is that of a redemption of the same key with d that arrived
\* after it, both return Authorized, the second read hwid = d, wrote
\* nothing and left the record as it had read it.
C5_SameDeviceTwice ==
    \A i \in 1..(Len(log) - 1) :
        LET a == log[i]
            b == log[i + 1]
        IN  (/\ FirstUse(a) /\ Fresh(i + 1)
             /\ b.op = "validateKey" /\ b.key = a.key /\ b.hwid = a.hwid
             /\ (b.kData # NoDoc => b.at <= b.kData.expires))
            => /\ Authorized(a) /\ Authorized(b)
               /\ b.kData # NoDoc /\ b.kData.hwid = a.hwid
               /\ b.pre = NoDoc
               /\ (i + 1 = Len(log) => findOne(b.key) = b.kData)

\* the same device redeemed a fresh key twice in a row
C5_Witness ==
    \E i \in 1..(Len(log) - 1) :
        /\ FirstUse(log[i]) /\ Authorized(log[i]) /\ Fresh(i + 1)
        /\ Authorized(log[i + 1]) /\ log[i + 1].hwid = log[i].hwid
        /\ log[i + 1].key = log[i].key

\* C6: once a redemption of a key by A has returned Authorized, every
\* redemption of that key arriving later with a hwid other than A, and
\* finding the key unexpired, returns DeviceMismatch, as long as no reset
\* has been answered in between.
C6_MismatchUntilReset ==
    \A i, j \in 1..Len(log) :
        (/\ i < j /\ Authorized(log[i])
         /\ log[j].op = "validateKey" /\ log[j].born >= i
         /\ log[j].key = log[i].key /\ log[j].hwid # log[i].hwid
         /\ Unexpired(log[j])
         /\ \A m \in (i + 1)..(j - 1) : log[m].op # "reset")
        => DeviceMismatch(log[j])

\* C7: after a reset of a bound key, a redemption that arrives next and
\* finds the key unexpired returns Authorized for any hwid and binds it; the
\* redemption after that, with another hwid, returns DeviceMismatch.
C7_RebindAfterReset ==
    \A i \in 1..(Len(log) - 1) :
        LET y == log[i + 1]
        IN  (/\ log[i].op = "reset" /\ log[i].status = 200 /\ log[i].pre.hwid # Null
             /\ Fresh(i + 1) /\ y.op = "validateKey" /\ y.key = log[i].key
             /\ Unexpired(y))
            => /\ Authorized(y)
               /\ y.pre # NoDoc
               /\ (i + 1 = Len(log) => findOne(y.key).hwid = y.hwid)
               /\ (/\ i + 2 <= Len(log) /\ Fresh(i + 2)
                   /\ log[i + 2].op = "validateKey" /\ log[i + 2].key = y.key
                   /\ log[i + 2].hwid # y.hwid /\ Unexpired(log[i + 2]))
                  => DeviceMismatch(log[i + 2]) /\ log[i + 2].kData.hwid = y.hwid

\* X bound the key, the key was reset, Y redeemed it, X was turned away
C7_Witness ==
    \E i \in 1..(Len(log) - 2) :
        /\ log[i].op = "reset" /\ log[i].status = 200 /\ log[i].pre.hwid = "X"
        /\ Fresh(i + 1) /\ Authorized(log[i + 1]) /\ log[i + 1].hwid = "Y"
        /\ Fresh(i + 2) /\ DeviceMismatch(log[i + 2]) /\ log[i + 2].hwid = "X"

\* C8: POST /api/reset of a key in the store sets that record's hwid to null
\* and changes nothing else in the store; of a key not in the store it
\* answers 404 and leaves the store as it is.
C8_ResetFrame ==
    [][Answered("reset") =>
          LET e == Last(log')
              d == findOne(e.key)
          IN  IF d # NoDoc
              THEN e.status = 200 /\ db' = (db \ {d}) \cup {[d EXCEPT !.hwid = Null]}
              ELSE e.status = 404 /\ db' = db]_vars

\* a bound key was reset
C8_Witness ==
    /\ log # <<>> /\ Last(log).op = "reset" /\ Last(log).status = 200
    /\ Last(log).pre.hwid # Null
    /\ findOne(Last(log).key).hwid = Null

\* C9: POST /api/extend with a numeric day count d, on a record nothing has
\* written since the handler read it, sets expires to the later of the old
\* expires and the handler's Date.now(), plus d days, and changes nothing
\* else; on a key not in the store it answers 404 at once and changes
\* nothing, and it goes on only with a record of the store.
C9_ExtendFromLaterOfExpiryAndNow ==
    [][/\ \A r \in inflight :
            (/\ r.op = "extend" /\ r.pc = "save" /\ Stepped(r)
             /\ findById(r.kData._id) = r.kData /\ ~parseInt(r.days).nan) =>
                LET old == r.kData.expires
                    base == IF old >= r.at THEN old ELSE r.at
                    e == base + parseInt(r.days).n * HoursPerDay
                IN  /\ db' = (db \ {r.kData}) \cup {[r.kData EXCEPT !.expires = e]}
                    /\ Last(log').op = "extend" /\ Last(log').status = 200
                    /\ Last(log').val = e
       /\ Answered("extend") =>
            /\ findOne(Last(log').key) = NoDoc
            /\ Last(log').status = 404
            /\ db' = db
       /\ \A r \in inflight' \ inflight :
            (r.op = "extend" /\ r.pc = "compute") => r.kData \in db /\ db' = db]_vars

\* a key that had expired was extended by a day, to a day from then
C9_Witness ==
    \E e \in Responses :
        /\ e.op = "extend" /\ e.status = 200 /\ e.pre = e.kData
        /\ e.kData.expires < e.at /\ e.val = e.at + HoursPerDay
        /\ findById(e.kData._id).expires = e.val

\* C10: no step lowers the expires of a record of the store.
C10_ExpiresNeverDecreases ==
    [][\A d \in db : \A d2 \in db' : d2._id = d._id => d2.expires >= d.expires]_vars

\* C11: POST /api/purge at time now removes exactly the records with
\* expires < now: afterwards no record has expires < now, every record with
\* expires >= now is still there as it was, nothing else appears, and the
\* count answered is the number of records removed.
C11_PurgeExact ==
    [][Answered("purge") =>
          LET e == Last(log')
          IN  /\ e.status = 200 /\ e.ret
              /\ \A d \in db' : ~(d.expires < now)
              /\ \A d \in db : d.expires >= now => d \in db'
              /\ db' \subseteq db
              /\ e.val = Cardinality(db \ db')]_vars

\* a purge removed one record and kept another
C11_Witness ==
    /\ log # <<>> /\ Last(log).op = "purge" /\ Last(log).val = 1
    /\ \E d \in db : d.expires >= Last(log).at

\* a request with the password `pass` can start the handler of an
\* administrative route, whatever its other inputs
HandlerRuns(pass) ==
    \/ ENABLED List(pass)
    \/ ENABLED Purge(pass)
    \/ ENABLED StatsStart(pass)
    \/ \E days \in DaysInputs, note \in CreateNotes, k \in KeyPool :
          ENABLED Create(pass, days, note, k)
    \/ \E k \in KeyInputs :
          \/ ENABLED Reset(pass, k)
          \/ ENABLED Delete(pass, k)
          \/ ENABLED DuplicateFind(pass, k)
          \/ \E note \in UpdateNotes : ENABLED Update(pass, k, note)
          \/ \E days \in DaysInputs : ENABLED ExtendFind(pass, k, days)
          \/ \E op \in AdminOps : ENABLED Rejects(op, pass, k, "")
    \/ \E count \in CountInputs, days \in DaysInputs, note \in CreateNotes :
          ENABLED BulkStart(pass, count, days, note)

\* C12: with an invalid password no handler of the ten administrative routes
\* starts (so none reads or writes the store); the request is answered by
\* requireAuth, for each route with the same 403 "Invalid Admin Password",
\* and that step leaves the store and the suspended handlers as they are.
C12_InvalidCredentialShortCircuits ==
    [][/\ ~HandlerRuns("wrong")
       /\ left > 0 => \A op \in AdminOps : ENABLED AdminDenied(op, "wrong")
       /\ Answered("requireAuth") =>
            /\ Last(log').status = 403 /\ Last(log').msg = "Invalid Admin Password"
            /\ ~Last(log').ret
            /\ db' = db /\ nextId' = nextId]_vars

\* an invalid password was turned away while the store held a record
C12_Witness ==
    log # <<>> /\ Last(log).op = "requireAuth" /\ Last(log).status = 403 /\ db # {}

\* C13: every step that changes the store is the bind write of a
\* redemption, or a step of the handler of an administrative route (which
\* runs only behind requireAuth); in particular no request that passed no
\* password check adds a record.
C13_MutationsNeedAuth ==
    [][db' # db =>
          \/ \E r \in inflight : r.op = "validateKey" /\ r.pc = "save" /\ Stepped(r)
          \/ \E op \in AdminOps : Answered(op)
          \/ \E r \in inflight : r.op \in AdminOps /\ Stepped(r)]_vars

\* C14: a redemption whose key or hwid is absent or empty is answered at
\* once with 403 MSG_DENIED (validateKey returning false): its handler is
\* never suspended at Key.findOne, it has loaded no document and the step
\* leaves the store as it is.
C14_MissingParameters ==
    [][/\ \A r \in inflight' \ inflight :
            r.op = "validateKey" => r.key # "" /\ r.hwid # ""
       /\ (/\ Answered("validateKey")
           /\ Last(log').key = "" \/ Last(log').hwid = "") =>
            LET e == Last(log')
            IN  /\ e.status = 403 /\ e.msg = MSG_DENIED /\ ~e.ret
                /\ e.kData = NoDoc /\ e.pre = NoDoc
                /\ db' = db]_vars

\* a redemption without hwid was refused though its key is in the store
C14_Witness ==
    /\ log # <<>> /\ Last(log).op = "validateKey" /\ Last(log).hwid = ""
    /\ Last(log).msg = MSG_DENIED /\ findOne(Last(log).key) # NoDoc

\* what the caller of a redemption sees
Outcome(e) == <<e.status, e.msg>>
\* why a redemption was answered as it was, from what its handler had read
Kind(e) ==
    IF e.op # "validateKey" THEN "none"
    ELSE IF e.key = "" \/ e.hwid = "" THEN "MissingParameters"
    ELSE IF e.kData = NoDoc THEN "NotFound"
    ELSE IF e.at > e.kData.expires THEN "Expired"
    ELSE IF e.kData.hwid \notin {Null, e.hwid} THEN "DeviceMismatch"
    ELSE "Authorized"

\* C15: two redemptions answered one after the other for different reasons
\* among MissingParameters, NotFound, Expired and DeviceMismatch get
\* different responses.
C15_OutcomesDistinguishable ==
    [][(log # <<>> /\ log' # <<>>) =>
          LET a == Last(log)
              b == Last(log')
              Failures == {"MissingParameters", "NotFound", "Expired", "DeviceMismatch"}
          IN  (Kind(a) \in Failures /\ Kind(b) \in Failures /\ Kind(a) # Kind(b))
                 => Outcome(a) # Outcome(b)]_vars

\* C16: the handler whose store call rejected ends with a 500 response and
\* without success: validateKey sends "Database Error", which is none of
\* MSG_DENIED, MSG_EXPIRED, MSG_LOCKED, and returns false (the route sends no
\* payload); an administrative route answers 500 with the error's message;
\* the step writes nothing.
C16_StoreErrorsSurface ==
    [][\A r \in inflight : (r.pc = "catch" /\ Stepped(r)) =>
          LET e == Last(log')
          IN  /\ Ended(r)
              /\ e.op = r.op /\ e.status = 500 /\ ~e.ret
              /\ r.op = "validateKey" =>
                    /\ e.msg = "Database Error"
                    /\ e.msg \notin {MSG_DENIED, MSG_EXPIRED, MSG_LOCKED}
              /\ db' = db]_vars

\* the bind write of a redemption rejected: Database Error, the key unbound
C16_Witness ==
    /\ log # <<>> /\ Last(log).op = "validateKey" /\ Last(log).status = 500
    /\ Last(log).kData # NoDoc /\ findOne(Last(log).key) # NoDoc
    /\ findOne(Last(log).key).hwid = Null

C18_KeysUnique ==
    \A d1, d2 \in db : (d1.key = d2.key \/ d1._id = d2._id) => d1 = d2

\* a duplicate drew the key of a record of the store and was refused
C18_Witness ==
    /\ log # <<>> /\ Last(log).op = "duplicate" /\ Last(log).status = 500
    /\ Cardinality({d \in db : d.key = Last(log).key}) = 1
    /\ Cardinality(db) = 2

\* C19: a POST /api/create whose generated key is the key of a record of the
\* store fails: it answers 500 with the duplicate-key error and no success,
\* adds no record and leaves the record that holds the key, and the rest of
\* the store, as they are.
C19_IssueCollisionFails ==
    [][Answered("create") =>
       \A pass \in Passwords, days \in DaysInputs, note \in CreateNotes, k \in KeyPool :
          (findOne(k) # NoDoc /\ Create(pass, days, note, k)) =>
              /\ Last(log').status = 500 /\ Last(log').msg = "E11000" /\ ~Last(log').ret
              /\ db' = db
              /\ findOne(k)' = findOne(k)]_vars

\* a create drew the key of a record bound to a device
C19_Witness ==
    /\ log # <<>> /\ Last(log).op = "create" /\ Last(log).status = 500
    /\ findOne(Last(log).key) # NoDoc /\ findOne(Last(log).key).hwid # Null

RECURSIVE SumVal(_)
\* the sum of the numbers the responses q report
SumVal(q) == IF q = <<>> THEN 0 ELSE Head(q).val + SumVal(Tail(q))

\* C20: whatever `count` is (absent, zero, negative, not a number, above the
\* ceiling), a POST /api/bulk-create adds at most 50 records: the store never
\* holds more than 50 records per request that has arrived, and no response
\* reports more than 50 keys; once every request has been answered, all with
\* success, the store holds as many records as the responses report keys.
C20_BulkCapped ==
    /\ Cardinality(db) <= BulkCap * (MaxBulk - left)
    /\ \A e \in Responses : e.op = "bulk-create" => e.val <= BulkCap
    /\ (inflight = {} /\ \A e \in Responses : e.status = 200) =>
          Cardinality(db) = SumVal(log)

\* a bulk-create asked for more than 50 keys and was answered with 50
C20_Witness ==
    /\ log # <<>> /\ Last(log).op = "bulk-create" /\ Last(log).status = 200
    /\ Last(log).val = BulkCap /\ Cardinality(db) >= BulkCap

\* C21: when the k-th create of a bulk-create fails, the operation stops
\* without a further create and its response reports exactly the k-1 records
\* it created (which remain in the store).
C21_BulkFailureReportsCreated ==
    [][\A r \in inflight :
         (/\ r.op = "bulk-create"
          /\ Stepped(r)
          /\ Len(log') = Len(log) + 1
          /\ Last(log').status = 500)
         => /\ Ended(r)
            /\ db' = db
            /\ \A i \in 1..Len(r.keys) : findOne(r.keys[i]) # NoDoc
            /\ Last(log').val = Len(r.keys)]_vars

\* C22: a duplicate of an existing record adds exactly one record, with a key
\* and an _id the original does not have and with a null hwid even when the
\* original is bound, and leaves the original (and every other record) as it
\* was; a duplicate of an absent key answers 404 and adds nothing.
C22_DuplicateAddsUnboundCopy ==
    [][/\ \A r \in inflight :
            (/\ r.op = "duplicate" /\ Stepped(r)
             /\ log' # <<>> /\ Last(log').op = "duplicate" /\ Last(log').status = 200)
            => LET new == db' \ db
               IN  /\ Cardinality(new) = 1
                   /\ db \subseteq db'
                   /\ \A d \in new :
                         /\ d.key # r.kData.key /\ d._id # r.kData._id
                         /\ \A o \in db : o.key # d.key /\ o._id # d._id
                         /\ d.hwid = Null
                         /\ Last(log').kData = d
       /\ left' = left - 1 =>
            \A k \in KeyInputs :
               DuplicateFind(ADMIN_PASSWORD, k) =>
                  IF findOne(k) = NoDoc
                  THEN /\ db' = db /\ inflight' = inflight
                       /\ Last(log').op = "duplicate" /\ Last(log').status = 404
                  ELSE db' = db /\ log' = log /\ inflight' # inflight]_vars

\* a bound record was duplicated: the copy is unbound, the original still bound
C22_Witness ==
    /\ log # <<>> /\ Last(log).op = "duplicate" /\ Last(log).status = 200
    /\ Last(log).pre.hwid # Null
    /\ Last(log).pre \in db
    /\ Last(log).kData \in db /\ Last(log).kData.hwid = Null
    /\ Cardinality(db) = 2

C24_UpdateOnlyNote ==
    [][/\ Answered("update") =>
            LET e == Last(log')
                d == findOne(e.key)
            IN  IF d # NoDoc
                THEN /\ e.status = 200
                     /\ \E note \in UpdateNotes :
                           db' = (db \ {d}) \cup {[d EXCEPT !.note = note]}
                ELSE e.status = 404 /\ db' = db
       /\ \A r \in inflight :
            (r.op = "validateKey" /\ r.pc = "check") =>
               \A note \in UpdateNotes \cup CreateNotes \cup {"Linkvertise", "Bulk Generated"} :
                  Verdict([r.kData EXCEPT !.note = note], r.hwid, now)
                     = Verdict(r.kData, r.hwid, now)]_vars

\* the note of a record was updated and a redemption that loaded the record
\* with its new note was authorized and bound it
C24_Witness ==
    /\ log # <<>> /\ Last(log).op = "validateKey" /\ Last(log).status = 200
    /\ Last(log).kData.note \in UpdateNotes
    /\ findOne(Last(log).key) # NoDoc
    /\ findOne(Last(log).key).note \in UpdateNotes
    /\ findOne(Last(log).key).hwid = Last(log).hwid

\* C25: a record that was deleted or purged does not come back through a
\* late write: the save of an extend or of a first-use bind that had read
\* the record before it was removed changes nothing, and no extend, reset,
\* update or redemption step puts into the store a record that was not there.
C25_NoResurrection ==
    [][/\ \A r \in inflight :
            (Stepped(r) /\ r.op \in {"extend", "validateKey"}) =>
               /\ \A d \in db' : \E o \in db : o._id = d._id /\ o.key = d.key
               /\ findById(r.kData._id) = NoDoc => db' = db
       /\ (Answered("reset") \/ Answered("update")) =>
               \A d \in db' : \E o \in db : o._id = d._id /\ o.key = d.key]_vars

\* an extend had read a record that was removed before its save: the save
\* failed and the record is still gone
C25_Witness ==
    /\ log # <<>> /\ Last(log).op = "extend" /\ Last(log).status = 500
    /\ Last(log).kData # NoDoc
    /\ findById(Last(log).kData._id) = NoDoc
    /\ findOne(Last(log).key) = NoDoc

\* C26: a redemption changes nothing in the store, except that the save of a
\* first-use bind changes the hwid of the addressed record from null to the
\* presented hwid; a redemption that is denied (or fails) leaves the store as
\* it was.
C26_RedemptionFrame ==
    [][/\ \A r \in inflight :
            (r.op = "validateKey" /\ Stepped(r)) =>
               /\ \/ db' = db
                  \/ \E d \in db :
                        /\ d.key = r.key /\ d.hwid = Null
                        /\ db' = (db \ {d}) \cup {[d EXCEPT !.hwid = r.hwid]}
               /\ (Ended(r) /\ Last(log').status # 200) => db' = db
       /\ Answered("validateKey") => db' = db]_vars

C28_RemovedOnlyByDeleteOrPurge ==
    [][/\ (\E d \in db : \A d2 \in db' : d2._id # d._id) =>
            /\ Answered("delete") \/ Answered("purge")
            /\ Last(log').status = 200
       /\ now' # now => db' = db
       /\ \A r \in inflight :
            (r.op = "validateKey" /\ Ended(r) /\ Expired(Last(log'))) =>
               db' = db /\ (r.kData \in db => r.kData \in db')
       /\ Answered("list") => db' = db /\ Last(log').val = Cardinality(db)]_vars

\* a record that had expired was redeemed, the answer was KEY EXPIRED, and the
\* record is still in the store
C28_Witness ==
    /\ log # <<>> /\ Expired(Last(log))
    /\ Last(log).kData \in db
    /\ now > Last(log).kData.expires

\* C29: no operation changes the key, the _id or the created_at of a record
\* that stays in the store, and a record that enters the store has the
\* current time as its created_at.
C29_IdentityImmutable ==
    [][/\ \A d \in db, d2 \in db' :
            (d2._id = d._id \/ d2.key = d.key) =>
               d2._id = d._id /\ d2.key = d.key /\ d2.created_at = d.created_at
       /\ \A d2 \in db' :
            (\A d \in db : d._id # d2._id) => d2.created_at = now]_vars

\* a record was extended and relabelled after the clock had advanced, and
\* still has the key and the created_at it was issued with
C29_Witness ==
    \E d \in db :
       /\ d.key = "KEY_A" /\ d._id = 1 /\ d.created_at = 0
       /\ d.note \in UpdateNotes
       /\ d.expires > d.created_at + HoursPerDay
       /\ now > 0

\* C30: a non-null hwid that a record did not have before the step is
\* written only by the save of a redemption that had read the record unbound,
\* and it is the hwid that redemption presented; create, getkey, bulk-create
\* and duplicate add records with a null hwid, and extend, update, reset,
\* delete and purge leave no record with a non-null hwid it did not have.
C30_OnlyRedemptionBinds ==
    [][\A d2 \in db' :
          d2.hwid # Null =>
             \/ \E d \in db : d._id = d2._id /\ d.hwid = d2.hwid
             \/ \E r \in inflight :
                   /\ r.op = "validateKey" /\ r.pc = "save" /\ Ended(r)
                   /\ r.kData._id = d2._id /\ r.kData.hwid = Null
                   /\ d2.hwid = r.hwid
                   /\ Last(log').op = "validateKey" /\ Last(log').status = 200]_vars

\* a redemption bound a record that was in the store unbound
C30_Witness ==
    /\ log # <<>> /\ Last(log).op = "validateKey" /\ Last(log).status = 200
    /\ Last(log).pre # NoDoc /\ Last(log).pre.hwid = Null
    /\ findOne(Last(log).key) # NoDoc
    /\ findOne(Last(log).key).hwid = Last(log).hwid

\* C31: when every pending store call returns (a result or an error), every
\* request that is waiting for one is answered in the end; the step that ends
\* a request sends its one response and no other step of it sends any; and a
\* bulk-create that waits for a create has made fewer than num <= 50 creates,
\* so that it ends after 50 at most.
C31_EveryRequestCompletes ==
    /\ \A s \in 1..MaxInflight :
          (\E r \in inflight : r.slot = s) ~> (\A r \in inflight : r.slot # s)
    /\ [][\A r \in inflight :
            Stepped(r) =>
               IF Ended(r)
               THEN log' # <<>> /\ Last(log').op = r.op /\ Last(log').born = r.born
               ELSE log' = log]_vars
    /\ [](\A r \in inflight :
            r.op = "bulk-create" => Len(r.keys) < r.num /\ r.num <= BulkCap)

\* a bulk-create that asked for 99 keys has ended after 50 creates
C31_Witness ==
    /\ inflight = {}
    /\ log # <<>> /\ Last(log).op = "bulk-create" /\ Last(log).status = 200
    /\ Last(log).val = BulkCap
    /\ Cardinality(db) >= BulkCap

\* C32: a reset, delete, update, extend or duplicate whose key is missing or
\* empty is answered with 400 (invalid input) and without a store call: it is
\* answered at once and the store is as it was.
C32_EmptyKeyIsInvalidInput ==
    [][\A op \in {"reset", "delete", "update", "extend", "duplicate"} :
          (Answered(op) /\ Last(log').key = "") =>
             Last(log').status = 400 /\ db' = db]_vars

\* C33: of two redemptions of one key that present the
\* same hwid and overlap (the later answered had arrived before the earlier
\* was answered), the earlier having read the key unbound and unexpired and
\* the later having read it unexpired and unbound or bound to that hwid, both
\* return true, however their steps interleave; and the save of a first-use
\* bind leaves the key bound to the hwid presented.
C33_SameDeviceRaceBothAuthorized ==
    [][/\ \A i, j \in 1..Len(log') :
            (/\ i < j
             /\ log'[i].op = "validateKey" /\ log'[j].op = "validateKey"
             /\ log'[i].key = log'[j].key /\ log'[i].hwid = log'[j].hwid
             /\ log'[j].born < i
             /\ FirstUse(log'[i])
             /\ Unexpired(log'[j]) /\ log'[j].kData.hwid \in {Null, log'[j].hwid})
            => /\ log'[i].ret /\ log'[i].status = 200
               /\ log'[j].ret /\ log'[j].status = 200
       /\ \A r \in inflight :
            (r.op = "validateKey" /\ r.pc = "save" /\ Ended(r)) =>
               \E d \in db' : d.key = r.key /\ d.hwid = r.hwid]_vars

\* two overlapping redemptions from one device both read the key unbound,
\* both were authorized, and the key is bound to that device
C33_Witness ==
    /\ Len(log) >= 2
    /\ LET a == log[Len(log) - 1]
           b == log[Len(log)]
       IN  /\ FirstUse(a) /\ FirstUse(b)
           /\ a.key = b.key /\ a.hwid = b.hwid
           /\ b.born < Len(log) - 1
           /\ a.ret /\ b.ret
           /\ findOne(a.key).hwid = a.hwid

\* C34: no bind lands on an expired record: the hwid of a record never
\* changes from null to a non-null value in a step taken when now is after
\* the record's expires, also when the clock advances between a redemption's
\* expiry test and its save.
C34_NoBindOnExpired ==
    [][\A d \in db, d2 \in db' :
          (d2._id = d._id /\ d.hwid = Null /\ d2.hwid # Null) => ~(now > d.expires)]_vars

\* C35: the save of an extend writes expires and nothing else: hwid and note
\* keep the values the store holds at the save, also when a redemption bound
\* the key, a reset cleared it or an update relabelled it after the extend
\* had read the record.
C35_ExtendKeepsBindingAndNote ==
    [][\A r \in inflight :
          (r.op = "extend" /\ Stepped(r)) =>
             \/ db' = db
             \/ \E d \in db :
                   /\ d._id = r.kData._id
                   /\ Ended(r) /\ Last(log').status = 200
                   /\ db' = (db \ {d}) \cup {[d EXCEPT !.expires = Last(log').val]}]_vars

\* a redemption bound the key between the read and the save of an extend:
\* the key is extended and still bound
C35_Witness ==
    /\ log # <<>> /\ Last(log).op = "extend" /\ Last(log).status = 200
    /\ Last(log).kData.hwid = Null
    /\ Last(log).pre.hwid # Null
    /\ findOne(Last(log).key) = [Last(log).pre EXCEPT !.expires = Last(log).val]

\* C36: when an extend by a positive number of days has succeeded on a record
\* bound to a device (an expired record included), what validateKey decides on
\* the stored record, at the time of the extend and at any later time not
\* after the new expires, is a pass for that device and HWID LOCKED for any
\* other device.
C36_ExtendedStillBoundToDevice ==
    [][\A r \in inflight :
          (/\ r.op = "extend" /\ Ended(r) /\ Last(log').status = 200
           /\ ~parseInt(r.days).nan /\ parseInt(r.days).n > 0
           /\ findById(r.kData._id).hwid # Null)
          => LET d == findById(r.kData._id)
             IN  \E d2 \in db' :
                    /\ d2._id = d._id
                    /\ d2.expires > r.at
                    /\ \A t \in {r.at, now} :
                          t <= d2.expires =>
                             /\ Verdict(d2, d.hwid, t) = "pass"
                             /\ \A h \in HwidInputs \ {"", d.hwid} :
                                   Verdict(d2, h, t) = MSG_LOCKED]_vars

\* a key bound to a device had expired and was extended: it is unexpired and
\* still bound to that device
C36_Witness ==
    /\ log # <<>> /\ Last(log).op = "extend" /\ Last(log).status = 200
    /\ Last(log).pre.hwid # Null
    /\ Last(log).pre.expires < Last(log).at
    /\ findOne(Last(log).key) # NoDoc
    /\ findOne(Last(log).key).hwid = Last(log).pre.hwid
    /\ findOne(Last(log).key).expires >= now

\* C37: purge and validateKey draw the same line: the records a purge removes
\* at time now are the records validateKey would answer KEY EXPIRED for at
\* that time (expires < now), the records it leaves are those validateKey
\* would not call expired, a record with expires = now among them; and a
\* redemption answered KEY EXPIRED had loaded a record a purge at that
\* instant removes.
C37_PurgeAndRedemptionAgree ==
    [][/\ Answered("purge") =>
            \A d \in db, h \in HwidInputs \ {""} :
               /\ (d \notin db') = (Verdict(d, h, now) = MSG_EXPIRED)
               /\ (d \notin db') = (d.expires < now)
               /\ d.expires = now => (d \in db' /\ Verdict(d, h, now) # MSG_EXPIRED)
       /\ \A r \in inflight :
            (r.op = "validateKey" /\ r.pc = "check" /\ Ended(r)) =>
               (Expired(Last(log')) = (r.kData # NoDoc /\ r.kData.expires < now))]_vars

\* a purge ran at the very instant a record expires, and left it
C37_Witness ==
    /\ log # <<>> /\ Last(log).op = "purge" /\ Last(log).val = 0
    /\ Last(log).at = now
    /\ \E d \in db : d.expires = now

\* C38: the record a duplicate creates at time now expires k whole days
\* after now, k being the least whole number of days, 1 at least, that covers
\* what the original had left (expires - now); the duplicate of an expired
\* original expires exactly one day after now, and the duplicate of an
\* unexpired original never expires before the original.
C38_DuplicateExpiry ==
    [][\A r \in inflight :
          (r.op = "duplicate" /\ Ended(r) /\ Last(log').status = 200) =>
             LET new == Last(log').kData
                 rest == r.kData.expires - now
             IN  /\ new \in db' /\ new \notin db
                 /\ \E k \in 1..(DefaultDays + 1) :
                       /\ new.expires = now + k * HoursPerDay
                       /\ k * HoursPerDay >= rest
                       /\ k = 1 \/ (k - 1) * HoursPerDay < rest
                 /\ rest <= 0 => new.expires = now + HoursPerDay
                 /\ rest > 0 => new.expires >= r.kData.expires]_vars

\* the original had several days and a part of a day left: the copy got the
\* days rounded up
C38_Witness ==
    /\ log # <<>> /\ Last(log).op = "duplicate" /\ Last(log).status = 200
    /\ Last(log).pre.expires - Last(log).at > HoursPerDay
    /\ (Last(log).pre.expires - Last(log).at) % HoursPerDay # 0
    /\ Last(log).kData.expires > Last(log).pre.expires
    /\ Last(log).kData \in db

\* C39: whatever day count a create was given, a redemption of the new key
\* that arrives right after the create's response, from any device, returns
\* true and binds that device: a key just issued is not expired.
C39_FreshKeyRedeemable ==
    \A i \in 1..(Len(log) - 1) :
       (/\ log[i].op = "create" /\ log[i].status = 200
        /\ log[i + 1].op = "validateKey" /\ log[i + 1].key = log[i].key
        /\ log[i + 1].born >= i)
       => /\ log[i + 1].ret /\ log[i + 1].status = 200
          /\ log[i + 1].pre.hwid = Null

\* C40: an extend of a record of the store whose day count is missing or not
\* a number (parseInt yields NaN) changes no field of any record and is
\* answered with an error, not with success.
C40_ExtendWithoutDaysFails ==
    [][\A r \in inflight :
          (r.op = "extend" /\ parseInt(r.days).nan /\ Stepped(r)) =>
             /\ db' = db
             /\ Ended(r) => /\ Last(log').op = "extend"
                            /\ Last(log').status = 500 /\ ~Last(log').ret]_vars

\* an extend without a usable day count failed on a record that is in the
\* store as the handler had read it
C40_Witness ==
    /\ log # <<>> /\ Last(log).op = "extend" /\ Last(log).status = 500
    /\ Last(log).kData # NoDoc
    /\ Last(log).kData \in db

====
